---------------------------- MODULE Spec2Model ----------------------------
(***************************************************************************)
(* Segment cleaning simulator (src/segment_adv4.c, with the GC-less        *)
(* variant src/segment_adv2.c): a pool of fixed-capacity segments, a       *)
(* first-fit allocator, invalidate-then-write requests, and a greedy       *)
(* garbage collector with a cost model.                                    *)
(*                                                                         *)
(* The data[] payload array of a segment is written but never read by the  *)
(* program, so it is not part of the state.  segmentId always equals the   *)
(* index of the segment in the pool and is represented by that index.      *)
(***************************************************************************)
EXTENDS Integers, Sequences, FiniteSets, TLC

(***************************************************************************)
(* Sizes.  The program fixes SEGMENT_SIZE = NUM_SEGMENTS = 1024; the model *)
(* is explored with a small pool.                                          *)
(***************************************************************************)
SEGMENT_SIZE == 4

NUM_SEGMENTS == 2

\* sizeof(int) of the LP64 target: valid[] is an array of int
SIZEOF_INT == 4

\* uint64_t arithmetic is modular; the model keeps the wrap-around with a
\* word of WordBits bits (64 in the program)
WordBits == 8

\* precision, in bits, of the binary fractions that stand for doubles (53 in
\* the program)
MantissaBits == 13

\* the caller stops issuing requests once totalWrites reaches MaxWrites
MaxWrites == 3

\* the caller stops once gcCount reaches MaxGc
MaxGc == 2

\* the caller issues no request once totalInvalidated reaches MaxInvalidated
MaxInvalidated == 2

\* segment_adv2.c's main runs three workloads, each on a newly initialized manager
Adv2Workloads == 3

Segs == 0 .. (NUM_SEGMENTS - 1)

Pos == 0 .. (SEGMENT_SIZE - 1)

\* request.offset and request.size as the caller may pass them: in range,
\* and one beyond the segment bounds
Offsets == 0 .. SEGMENT_SIZE

Sizes == 0 .. (SEGMENT_SIZE + 1)

RECURSIVE Pow2(_)
Pow2(n) == IF n = 0 THEN 1 ELSE 2 * Pow2(n - 1)

Wrap == Pow2(WordBits)

\* uint64_t ++, -- and +
U64Inc(x) == (x + 1) % Wrap

U64Dec(x) == (x + Wrap - 1) % Wrap

U64Add(x, y) == (x + y) % Wrap

\* findSegmentForWrite's "no available segment"
NULL == -1

VARIABLES
    segments,          \* manager->segments[i]: utilization, valid[], invalidatedBytes
    totalWrites,       \* manager->totalWrites
    totalInvalidated,  \* manager->totalInvalidated
    gcCount,           \* manager->gcCount
    totalGcCost,       \* manager->totalGcCost, in units of 1/CostScale
    last,              \* what the last call on the store reported
    accepted,          \* number of requests accepted so far
    reclaimed,         \* number of victims reclaimed so far
    inits,             \* number of initSegmentManager calls so far
    call               \* the processWriteRequest call in progress, when it is
                       \* followed statement by statement

vars == <<segments, totalWrites, totalInvalidated, gcCount, totalGcCost, last,
          accepted, reclaimed, inits, call>>

\* the SegmentManager as one value, as the functions receive it by pointer
Manager == [segments |-> segments, totalWrites |-> totalWrites,
            totalInvalidated |-> totalInvalidated, gcCount |-> gcCount,
            totalGcCost |-> totalGcCost]

(***************************************************************************)
(* Floating point.  A double is represented by an exact fraction over a    *)
(* fixed denominator.                                                      *)
(***************************************************************************)
RECURSIVE Gcd(_, _)
Gcd(a, b) == IF b = 0 THEN a ELSE Gcd(b, a % b)

RECURSIVE LcmUpTo(_)
LcmUpTo(n) == IF n <= 1 THEN 1 ELSE LET l == LcmUpTo(n - 1) IN (l * n) \div Gcd(l, n)

\* every finite cost 2 / (1 - w / (N * S)) is a multiple of 1 / CostScale
CostScale == LcmUpTo(NUM_SEGMENTS * SEGMENT_SIZE)

\* round-to-nearest of num / den to a multiple of 2^-MantissaBits, as its
\* numerator over Pow2(MantissaBits)
RoundToGrid(num, den) == ((2 * num * Pow2(MantissaBits)) + den) \div (2 * den)

\* the literal 0.9 as the compiler rounds it
GC_THRESHOLD == RoundToGrid(9, 10)

(***************************************************************************)
(* initSegmentManager                                                      *)
(***************************************************************************)
\* memset(valid, 0, SEGMENT_SIZE) clears SEGMENT_SIZE bytes of an array of
\* SEGMENT_SIZE ints: the ints wholly inside the cleared bytes become 0, the
\* ints beyond them keep their value, and an int only partly inside them
\* stays non-zero when partSurvives (its non-zero bytes are among those not
\* cleared: the flag 1 on a big-endian target).
MemsetValid(old, partSurvives) ==
    [i \in Pos |->
        IF SIZEOF_INT * (i + 1) <= SEGMENT_SIZE THEN FALSE
        ELSE IF SIZEOF_INT * i < SEGMENT_SIZE THEN old[i] /\ partSurvives
        ELSE old[i]]

\* the manager initSegmentManager leaves behind when it runs on memory whose
\* validity ints hold mem
initSegmentManager(mem, partSurvives) ==
    [segments |-> [s \in Segs |->
                      [utilization |-> 0, invalidatedBytes |-> 0,
                       valid |-> MemsetValid(mem[s], partSurvives)]],
     totalWrites |-> 0, totalInvalidated |-> 0, gcCount |-> 0, totalGcCost |-> 0]

(***************************************************************************)
(* findSegmentForWrite: first fit in ascending id                          *)
(***************************************************************************)
\* mutant: the lookup forgets the size of the request
RECURSIVE findSegmentFrom_IgnoresSize(_, _, _)
findSegmentFrom_IgnoresSize(m, size, i) ==
    IF i >= NUM_SEGMENTS THEN NULL
    ELSE IF m.segments[i].utilization <= SEGMENT_SIZE THEN i
    ELSE findSegmentFrom_IgnoresSize(m, size, i + 1)

\* mutant: < for <= in the fit test
RECURSIVE findSegmentFrom_StrictFit(_, _, _)
findSegmentFrom_StrictFit(m, size, i) ==
    IF i >= NUM_SEGMENTS THEN NULL
    ELSE IF U64Add(m.segments[i].utilization, size) < SEGMENT_SIZE THEN i
    ELSE findSegmentFrom_StrictFit(m, size, i + 1)

RECURSIVE findSegmentFrom(_, _, _)
findSegmentFrom(m, size, i) ==
    IF i >= NUM_SEGMENTS THEN NULL
    ELSE IF U64Add(m.segments[i].utilization, size) <= SEGMENT_SIZE THEN i
    ELSE findSegmentFrom(m, size, i + 1)

findSegmentForWrite(m, size) == findSegmentFrom(m, size, 0)

(***************************************************************************)
(* invalidateOldData: for (i = offset; i < offset + size; i++)             *)
(***************************************************************************)
\* mutant: the invalidation forgets manager->totalInvalidated++
invalidateByte_SkipsTotal(m, s, i) ==
    IF i < SEGMENT_SIZE /\ m.segments[s].valid[i]
    THEN [m EXCEPT !.segments[s].valid[i] = FALSE,
                   !.segments[s].utilization = U64Dec(@),
                   !.segments[s].invalidatedBytes = U64Inc(@)]
    ELSE m

\* mutant: the invalidation forgets utilization--
invalidateByte_KeepsUtilization(m, s, i) ==
    IF i < SEGMENT_SIZE /\ m.segments[s].valid[i]
    THEN [m EXCEPT !.segments[s].valid[i] = FALSE,
                   !.segments[s].invalidatedBytes = U64Inc(@),
                   !.totalInvalidated = U64Inc(@)]
    ELSE m

invalidateByte(m, s, i) ==
    IF i < SEGMENT_SIZE /\ m.segments[s].valid[i]
    THEN [m EXCEPT !.segments[s].valid[i] = FALSE,
                   !.segments[s].utilization = U64Dec(@),
                   !.segments[s].invalidatedBytes = U64Inc(@),
                   !.totalInvalidated = U64Inc(@)]
    ELSE m

RECURSIVE invalidateFrom(_, _, _, _)
invalidateFrom(m, s, i, end) ==
    IF i < end THEN invalidateFrom(invalidateByte(m, s, i), s, i + 1, end) ELSE m

invalidateOldData(m, s, offset, size) ==
    invalidateFrom(m, s, offset, U64Add(offset, size))

(***************************************************************************)
(* writeToSegment                                                          *)
(***************************************************************************)
\* mutant: utilization++ for every byte written, valid before or not
writeByte_CountsEveryByte(m, s, i) ==
    IF i < SEGMENT_SIZE
    THEN [m EXCEPT !.segments[s].valid[i] = TRUE,
                   !.segments[s].utilization = U64Inc(@)]
    ELSE m

writeByte(m, s, i) ==
    IF i < SEGMENT_SIZE /\ ~m.segments[s].valid[i]
    THEN [m EXCEPT !.segments[s].valid[i] = TRUE,
                   !.segments[s].utilization = U64Inc(@)]
    ELSE m

RECURSIVE writeFrom(_, _, _, _)
writeFrom(m, s, i, end) ==
    IF i < end THEN writeFrom(writeByte(m, s, i), s, i + 1, end) ELSE m

writeToSegment(m, s, offset, size) ==
    writeFrom(m, s, offset, U64Add(offset, size))

(***************************************************************************)
(* isGarbageCollectionNeeded                                               *)
(***************************************************************************)
\* mutant: utilization >= 0 for utilization > 0
RECURSIVE usedSegmentsFrom_CountsAll(_, _)
usedSegmentsFrom_CountsAll(m, i) ==
    IF i >= NUM_SEGMENTS THEN 0
    ELSE (IF m.segments[i].utilization >= 0 THEN 1 ELSE 0)
            + usedSegmentsFrom_CountsAll(m, i + 1)

RECURSIVE usedSegmentsFrom(_, _)
usedSegmentsFrom(m, i) ==
    IF i >= NUM_SEGMENTS THEN 0
    ELSE (IF m.segments[i].utilization > 0 THEN 1 ELSE 0) + usedSegmentsFrom(m, i + 1)

\* ((double)usedSegments / NUM_SEGMENTS) >= GC_THRESHOLD
isGarbageCollectionNeeded(m) ==
    RoundToGrid(usedSegmentsFrom(m, 0), NUM_SEGMENTS) >= GC_THRESHOLD

(***************************************************************************)
(* garbageCollect                                                          *)
(***************************************************************************)
\* mutant: the scan takes the first segment in use, invalidated bytes or not
RECURSIVE victimScan_IgnoresInvalidated(_, _, _, _)
victimScan_IgnoresInvalidated(m, i, victimIndex, maxInvalidated) ==
    IF i >= NUM_SEGMENTS THEN victimIndex
    ELSE IF victimIndex = -1 /\ m.segments[i].utilization > 0
         THEN victimScan_IgnoresInvalidated(m, i + 1, i, m.segments[i].invalidatedBytes)
         ELSE victimScan_IgnoresInvalidated(m, i + 1, victimIndex, maxInvalidated)

\* mutant: >= for > in the scan, so that a later segment displaces an equal one
RECURSIVE victimScan_TiesToLast(_, _, _, _)
victimScan_TiesToLast(m, i, victimIndex, maxInvalidated) ==
    IF i >= NUM_SEGMENTS THEN victimIndex
    ELSE IF m.segments[i].invalidatedBytes >= maxInvalidated
            /\ m.segments[i].utilization > 0
         THEN victimScan_TiesToLast(m, i + 1, i, m.segments[i].invalidatedBytes)
         ELSE victimScan_TiesToLast(m, i + 1, victimIndex, maxInvalidated)

\* the victim scan from segment i on, given victimIndex and maxInvalidated so far
RECURSIVE victimScan(_, _, _, _)
victimScan(m, i, victimIndex, maxInvalidated) ==
    IF i >= NUM_SEGMENTS THEN victimIndex
    ELSE IF m.segments[i].invalidatedBytes > maxInvalidated
            /\ m.segments[i].utilization > 0
         THEN victimScan(m, i + 1, i, m.segments[i].invalidatedBytes)
         ELSE victimScan(m, i + 1, victimIndex, maxInvalidated)

selectVictim(m) == victimScan(m, 0, -1, 0)

\* the copy loop: every valid byte of the victim is written to newSegment
\* at the same offset, then its validity bit is cleared
\* mutant: the copy loop forgets victim->valid[i] = 0
copyByte_KeepsSourceFlag(m, victim, newSegment, i) ==
    IF m.segments[victim].valid[i]
    THEN writeToSegment(m, newSegment, i, 1)
    ELSE m

copyByte(m, victim, newSegment, i) ==
    IF m.segments[victim].valid[i]
    THEN [writeToSegment(m, newSegment, i, 1) EXCEPT !.segments[victim].valid[i] = FALSE]
    ELSE m

RECURSIVE copyFrom(_, _, _, _)
copyFrom(m, victim, newSegment, i) ==
    IF i < SEGMENT_SIZE
    THEN copyFrom(copyByte(m, victim, newSegment, i), victim, newSegment, i + 1)
    ELSE m

\* mutant: the reset forgets utilization
resetVictim_KeepsUtilization(m, victim) ==
    [m EXCEPT !.segments[victim].invalidatedBytes = 0]

\* mutant: the reset forgets invalidatedBytes
resetVictim_KeepsInvalidated(m, victim) ==
    [m EXCEPT !.segments[victim].utilization = 0]

resetVictim(m, victim) ==
    [m EXCEPT !.segments[victim].utilization = 0,
              !.segments[victim].invalidatedBytes = 0]

\* utilization < 1.0, with utilization = (double)totalWrites / (N * S)
costIsFinite(m) == m.totalWrites < NUM_SEGMENTS * SEGMENT_SIZE

\* mutant: the fill ratio taken from the bytes in use, not from totalWrites
RECURSIVE bytesInUseFrom(_, _)
bytesInUseFrom(m, i) ==
    IF i >= NUM_SEGMENTS THEN 0
    ELSE m.segments[i].utilization + bytesInUseFrom(m, i + 1)

gcCost_FromBytesInUse(m) ==
    (2 * NUM_SEGMENTS * SEGMENT_SIZE * CostScale)
        \div (NUM_SEGMENTS * SEGMENT_SIZE - bytesInUseFrom(m, 0))

\* 2.0 / (1.0 - utilization), in units of 1/CostScale
gcCost(m) ==
    (2 * NUM_SEGMENTS * SEGMENT_SIZE * CostScale)
        \div (NUM_SEGMENTS * SEGMENT_SIZE - m.totalWrites)

\* mutant: gcCount++ moved into the finite branch
accountCost_CountsOnlyFinite(m) ==
    IF costIsFinite(m)
    THEN [m EXCEPT !.totalGcCost = @ + gcCost(m), !.gcCount = U64Inc(@)]
    ELSE m

accountCost(m) ==
    [(IF costIsFinite(m) THEN [m EXCEPT !.totalGcCost = @ + gcCost(m)] ELSE m)
        EXCEPT !.gcCount = U64Inc(@)]

\* mutant: the destination must have room for the victim's bytes
garbageCollect_SizedDestination(m) ==
    LET victimIndex == selectVictim(m)
        newSegment ==
            IF victimIndex = -1 THEN NULL
            ELSE findSegmentForWrite(m, m.segments[victimIndex].utilization)
    IN  IF victimIndex = -1 THEN [m |-> m, out |-> "NoVictim", victim |-> -1]
        ELSE IF newSegment = NULL THEN [m |-> m, out |-> "NoDestination", victim |-> -1]
        ELSE [m |-> accountCost(resetVictim(copyFrom(m, victimIndex, newSegment, 0),
                                            victimIndex)),
              out |-> "VictimReclaimed", victim |-> victimIndex]

\* mutant: gcCount++ before the "no suitable victim" return
garbageCollect_CountsNoVictim(m) ==
    LET victimIndex == selectVictim(m)
        newSegment == findSegmentForWrite(m, 0)
    IN  IF victimIndex = -1
        THEN [m |-> [m EXCEPT !.gcCount = U64Inc(@)], out |-> "NoVictim", victim |-> -1]
        ELSE IF newSegment = NULL THEN [m |-> m, out |-> "NoDestination", victim |-> -1]
        ELSE [m |-> accountCost(resetVictim(copyFrom(m, victimIndex, newSegment, 0),
                                            victimIndex)),
              out |-> "VictimReclaimed", victim |-> victimIndex]

\* garbageCollect: the manager it leaves, the message it prints and the
\* segment id printed with "Freed Segment" (-1 when none is freed)
garbageCollect(m) ==
    LET victimIndex == selectVictim(m)
        newSegment == findSegmentForWrite(m, 0)
    IN  IF victimIndex = -1 THEN [m |-> m, out |-> "NoVictim", victim |-> -1]
        ELSE IF newSegment = NULL THEN [m |-> m, out |-> "NoDestination", victim |-> -1]
        ELSE [m |-> accountCost(resetVictim(copyFrom(m, victimIndex, newSegment, 0),
                                            victimIndex)),
              out |-> "VictimReclaimed", victim |-> victimIndex]

(***************************************************************************)
(* processWriteRequest: the manager it leaves, whether it printed the      *)
(* "no space available" error, and what the forced collection printed      *)
(* ("None" when the first lookup found a segment)                          *)
(***************************************************************************)
\* mutant: totalWrites++ at the top of the function
processWriteRequest_CountsBeforeLookup(m, offset, size) ==
    LET m0 == [m EXCEPT !.totalWrites = U64Inc(@)]
        first == findSegmentForWrite(m0, size)
        forced == IF first = NULL THEN garbageCollect(m0)
                  ELSE [m |-> m0, out |-> "None", victim |-> -1]
        targetSegment == IF first = NULL THEN findSegmentForWrite(forced.m, size)
                         ELSE first
    IN  IF targetSegment = NULL
        THEN [m |-> forced.m, out |-> "AllocationFailure", gc |-> forced.out,
              victim |-> forced.victim]
        ELSE [m |-> writeToSegment(
                        invalidateOldData(forced.m, targetSegment, offset, size),
                        targetSegment, offset, size),
              out |-> "Accepted", gc |-> forced.out, victim |-> forced.victim]

\* mutant: totalWrites counts the bytes of the request
processWriteRequest_CountsBytes(m, offset, size) ==
    LET first == findSegmentForWrite(m, size)
        forced == IF first = NULL THEN garbageCollect(m)
                  ELSE [m |-> m, out |-> "None", victim |-> -1]
        targetSegment == IF first = NULL THEN findSegmentForWrite(forced.m, size)
                         ELSE first
    IN  IF targetSegment = NULL
        THEN [m |-> forced.m, out |-> "AllocationFailure", gc |-> forced.out,
              victim |-> forced.victim]
        ELSE [m |-> [writeToSegment(
                        invalidateOldData(forced.m, targetSegment, offset, size),
                        targetSegment, offset, size)
                     EXCEPT !.totalWrites = U64Add(@, size)],
              out |-> "Accepted", gc |-> forced.out, victim |-> forced.victim]

processWriteRequest(m, offset, size) ==
    LET first == findSegmentForWrite(m, size)
        forced == IF first = NULL THEN garbageCollect(m)
                  ELSE [m |-> m, out |-> "None", victim |-> -1]
        targetSegment == IF first = NULL THEN findSegmentForWrite(forced.m, size)
                         ELSE first
    IN  IF targetSegment = NULL
        THEN [m |-> forced.m, out |-> "AllocationFailure", gc |-> forced.out,
              victim |-> forced.victim]
        ELSE [m |-> [writeToSegment(
                        invalidateOldData(forced.m, targetSegment, offset, size),
                        targetSegment, offset, size)
                     EXCEPT !.totalWrites = U64Inc(@)],
              out |-> "Accepted", gc |-> forced.out, victim |-> forced.victim]

\* mutant: the variant writes without invalidating first
processWriteRequestAdv2_SkipsInvalidation(m, offset, size) ==
    LET targetSegment == findSegmentForWrite(m, size)
    IN  IF targetSegment = NULL
        THEN [m |-> m, out |-> "AllocationFailure", gc |-> "None", victim |-> -1]
        ELSE [m |-> [writeToSegment(m, targetSegment, offset, size)
                     EXCEPT !.totalWrites = U64Inc(@)],
              out |-> "Accepted", gc |-> "None", victim |-> -1]

\* segment_adv2.c: the variant without garbage collection
processWriteRequestAdv2(m, offset, size) ==
    LET targetSegment == findSegmentForWrite(m, size)
    IN  IF targetSegment = NULL
        THEN [m |-> m, out |-> "AllocationFailure", gc |-> "None", victim |-> -1]
        ELSE [m |-> [writeToSegment(
                        invalidateOldData(m, targetSegment, offset, size),
                        targetSegment, offset, size)
                     EXCEPT !.totalWrites = U64Inc(@)],
              out |-> "Accepted", gc |-> "None", victim |-> -1]

(***************************************************************************)
(* The store and the calls made on it                                      *)
(***************************************************************************)
Store(m) ==
    /\ segments' = m.segments
    /\ totalWrites' = m.totalWrites
    /\ totalInvalidated' = m.totalInvalidated
    /\ gcCount' = m.gcCount
    /\ totalGcCost' = m.totalGcCost

\* no call in progress; ops keeps the statements the last call carried out
NoCall(ops) ==
    [pc |-> "Idle", offset |-> 0, size |-> 0, targetSegment |-> NULL,
     gc |-> "None", victim |-> -1, ops |-> ops]

\* main: SegmentManager manager; initSegmentManager(&manager);  The manager
\* is an uninitialized automatic object, so its validity ints hold anything.
Init ==
    \E mem \in [Segs -> [Pos -> BOOLEAN]], partSurvives \in BOOLEAN :
        LET m == initSegmentManager(mem, partSurvives) IN
        /\ segments = m.segments
        /\ totalWrites = m.totalWrites
        /\ totalInvalidated = m.totalInvalidated
        /\ gcCount = m.gcCount
        /\ totalGcCost = m.totalGcCost
        /\ last = [out |-> "Initialized", gc |-> "None", victim |-> -1,
                   clipped |-> FALSE]
        /\ accepted = 0
        /\ reclaimed = 0
        /\ inits = 1
        /\ call = NoCall(<<>>)

Reclaims(out) == IF out = "VictimReclaimed" THEN 1 ELSE 0

\* processWriteRequest(&manager, &request)
DoProcessWriteRequest(offset, size) ==
    \E r \in {processWriteRequest(Manager, offset, size)} :
    /\ Store(r.m)
    /\ last' = [out |-> r.out, gc |-> r.gc, victim |-> r.victim,
                clipped |-> (offset + size > SEGMENT_SIZE)]
    /\ accepted' = accepted + (IF r.out = "Accepted" THEN 1 ELSE 0)
    /\ reclaimed' = reclaimed + Reclaims(r.gc)
    /\ inits' = inits
    /\ call' = call

\* garbageCollect(&manager)
DoGarbageCollect ==
    \E r \in {garbageCollect(Manager)} :
    /\ Store(r.m)
    /\ last' = [out |-> r.out, gc |-> r.out, victim |-> r.victim, clipped |-> FALSE]
    /\ accepted' = accepted
    /\ reclaimed' = reclaimed + Reclaims(r.out)
    /\ inits' = inits
    /\ call' = call

\* the caller's budget: no request once a counter has reached its bound, no
\* explicit collection once gcCount has
MayRequest ==
    /\ totalWrites < MaxWrites
    /\ gcCount < MaxGc
    /\ totalInvalidated < MaxInvalidated

MayCollect == gcCount < MaxGc

ProcessWriteRequest(offset, size) ==
    /\ MayRequest
    /\ DoProcessWriteRequest(offset, size)

GarbageCollect ==
    /\ MayCollect
    /\ DoGarbageCollect

\* generateWorkload: if (isGarbageCollectionNeeded(manager)) garbageCollect(manager);
CollectIfNeeded ==
    /\ MayCollect
    /\ isGarbageCollectionNeeded(Manager)
    /\ DoGarbageCollect

Next ==
    \/ \E offset \in Offsets, size \in Sizes : ProcessWriteRequest(offset, size)
    \/ GarbageCollect
    \/ CollectIfNeeded

Spec == Init /\ [][Next]_vars

(***************************************************************************)
(* A long run: the caller keeps rewriting the first byte, writes a whole    *)
(* segment, or sends empty requests, until totalWrites has passed the      *)
(* pool's size in bytes.                                                   *)
(***************************************************************************)
LongSizes == {0, 1, SEGMENT_SIZE}

LongMayRequest ==
    /\ totalWrites <= NUM_SEGMENTS * SEGMENT_SIZE
    /\ gcCount < MaxGc
    /\ totalInvalidated < MaxInvalidated

LongProcessWriteRequest(size) ==
    /\ LongMayRequest
    /\ DoProcessWriteRequest(0, size)

LongGarbageCollect ==
    /\ MayCollect
    /\ DoGarbageCollect

LongNext ==
    \/ \E size \in LongSizes : LongProcessWriteRequest(size)
    \/ LongGarbageCollect

SpecLong == Init /\ [][LongNext]_vars

(***************************************************************************)
(* segment_adv2.c: main initializes the same manager before each of its    *)
(* three workloads, and processWriteRequest never collects.                *)
(***************************************************************************)
Adv2ProcessWriteRequest(offset, size) ==
    /\ MayRequest
    /\ \E r \in {processWriteRequestAdv2(Manager, offset, size)} :
        /\ Store(r.m)
        /\ last' = [out |-> r.out, gc |-> r.gc, victim |-> r.victim,
                    clipped |-> (offset + size > SEGMENT_SIZE)]
        /\ accepted' = accepted + (IF r.out = "Accepted" THEN 1 ELSE 0)
        /\ UNCHANGED <<reclaimed, inits, call>>

Adv2InitSegmentManager ==
    /\ inits < Adv2Workloads
    /\ \E partSurvives \in BOOLEAN :
        Store(initSegmentManager([s \in Segs |-> segments[s].valid], partSurvives))
    /\ last' = [out |-> "Initialized", gc |-> "None", victim |-> -1, clipped |-> FALSE]
    /\ accepted' = 0
    /\ reclaimed' = 0
    /\ inits' = inits + 1
    /\ call' = call

Adv2Next ==
    \/ \E offset \in Offsets, size \in Sizes : Adv2ProcessWriteRequest(offset, size)
    \/ Adv2InitSegmentManager

SpecAdv2 == Init /\ [][Adv2Next]_vars

(***************************************************************************)
(* processWriteRequest followed statement by statement: the lookup, the    *)
(* forced collection and the second lookup, the invalidation, the write    *)
(* and the count are steps of their own.                                   *)
(***************************************************************************)
\* processWriteRequest(&manager, &request) is entered
StepCall(offset, size) ==
    /\ call.pc = "Idle"
    /\ MayRequest
    /\ call' = [NoCall(<<>>) EXCEPT !.pc = "Allocating", !.offset = offset,
                                    !.size = size]
    /\ UNCHANGED <<segments, totalWrites, totalInvalidated, gcCount, totalGcCost,
                   last, accepted, reclaimed, inits>>

\* mutant: the collection is forced whatever the first lookup returned
StepAllocate_AlwaysCollects ==
    /\ call.pc = "Allocating"
    /\ \E t \in {findSegmentForWrite(Manager, call.size)} :
          call' = [call EXCEPT !.targetSegment = t,
                               !.pc = "GCRetry",
                               !.ops = Append(@, IF t = NULL THEN "NotFound" ELSE "Found")]
    /\ UNCHANGED <<segments, totalWrites, totalInvalidated, gcCount, totalGcCost,
                   last, accepted, reclaimed, inits>>

\* Segment *targetSegment = findSegmentForWrite(manager, request->size);
StepAllocate ==
    /\ call.pc = "Allocating"
    /\ \E t \in {findSegmentForWrite(Manager, call.size)} :
          call' = [call EXCEPT !.targetSegment = t,
                               !.pc = IF t = NULL THEN "GCRetry" ELSE "Invalidating",
                               !.ops = Append(@, IF t = NULL THEN "NotFound" ELSE "Found")]
    /\ UNCHANGED <<segments, totalWrites, totalInvalidated, gcCount, totalGcCost,
                   last, accepted, reclaimed, inits>>

\* if (targetSegment == NULL) { garbageCollect(manager);
StepCollect ==
    /\ call.pc = "GCRetry"
    /\ \E r \in {garbageCollect(Manager)} :
          /\ Store(r.m)
          /\ reclaimed' = reclaimed + Reclaims(r.out)
          /\ call' = [call EXCEPT !.pc = "Retrying", !.gc = r.out, !.victim = r.victim,
                                   !.ops = Append(@, "garbageCollect")]
    /\ UNCHANGED <<last, accepted, inits>>

\* the failure path returns without another statement
StepRetry ==
    /\ call.pc = "Retrying"
    /\ \E t \in {findSegmentForWrite(Manager, call.size)} :
          IF t = NULL
          THEN /\ call' = NoCall(Append(call.ops, "NotFound"))
               /\ last' = [out |-> "AllocationFailure", gc |-> call.gc,
                           victim |-> call.victim,
                           clipped |-> (call.offset + call.size > SEGMENT_SIZE)]
          ELSE /\ call' = [call EXCEPT !.targetSegment = t, !.pc = "Invalidating",
                                        !.ops = Append(@, "Found")]
               /\ last' = last
    /\ UNCHANGED <<segments, totalWrites, totalInvalidated, gcCount, totalGcCost,
                   accepted, reclaimed, inits>>

\* invalidateOldData(targetSegment, request->offset, request->size, manager);
StepInvalidate ==
    /\ call.pc = "Invalidating"
    /\ Store(invalidateOldData(Manager, call.targetSegment, call.offset, call.size))
    /\ call' = [call EXCEPT !.pc = "Writing", !.ops = Append(@, "invalidateOldData")]
    /\ UNCHANGED <<last, accepted, reclaimed, inits>>

\* writeToSegment(targetSegment, request->offset, request->size, manager);
StepWrite ==
    /\ call.pc = "Writing"
    /\ Store(writeToSegment(Manager, call.targetSegment, call.offset, call.size))
    /\ call' = [call EXCEPT !.pc = "Counting", !.ops = Append(@, "writeToSegment")]
    /\ UNCHANGED <<last, accepted, reclaimed, inits>>

\* manager->totalWrites++; and the return
StepCount ==
    /\ call.pc = "Counting"
    /\ totalWrites' = U64Inc(totalWrites)
    /\ call' = NoCall(Append(call.ops, "totalWrites++"))
    /\ last' = [out |-> "Accepted", gc |-> call.gc, victim |-> call.victim,
                clipped |-> (call.offset + call.size > SEGMENT_SIZE)]
    /\ accepted' = accepted + 1
    /\ UNCHANGED <<segments, totalInvalidated, gcCount, totalGcCost, reclaimed, inits>>

StepNext ==
    \/ \E offset \in Offsets, size \in Sizes : StepCall(offset, size)
    \/ StepAllocate
    \/ StepCollect
    \/ StepRetry
    \/ StepInvalidate
    \/ StepWrite
    \/ StepCount

SpecSteps == Init /\ [][StepNext]_vars

(***************************************************************************)
(* Properties                                                              *)
(***************************************************************************)
ValidCount(s) == Cardinality({i \in Pos : segments[s].valid[i]})

\* the segments with utilization > 0
Used == {s \in Segs : segments[s].utilization > 0}

\* the segments garbage collection may reclaim
Candidates == {s \in Used : segments[s].invalidatedBytes > 0}

\* the in-bounds part of [offset, offset + size)
InBounds(offset, size) == {i \in Pos : offset <= i /\ i < offset + size}

Counters == <<totalWrites, totalInvalidated, gcCount, totalGcCost>>

PoolBytes == NUM_SEGMENTS * SEGMENT_SIZE

\* C1: in every reachable state every segment has 0 <= utilization <=
\* capacity and utilization equal to the number of its true validity flags.
C1_UtilizationCountsValid ==
    \A s \in Segs :
        /\ segments[s].utilization \in 0 .. SEGMENT_SIZE
        /\ segments[s].utilization = ValidCount(s)

\* C2 (as claimed): a request that ends in AllocationFailure changes none of
\* totalWrites, totalInvalidated, gcCount and totalGcCost.
C2_FailureChangesNoCounter ==
    [][last'.out = "AllocationFailure" => UNCHANGED Counters]_vars

\* C2 (amended): in every reachable state, a request that would end in
\* AllocationFailure leaves totalWrites and totalInvalidated unchanged; gcCount and totalGcCost are unchanged
\* unless the forced collection reclaimed a victim, which happens only for a
\* request of size > capacity and raises gcCount by exactly 1.
C2_FailureKeepsWriteCounters ==
    \A offset \in Offsets, size \in Sizes :
        \A r \in {processWriteRequest(Manager, offset, size)} :
            r.out = "AllocationFailure" =>
                /\ r.m.totalWrites = totalWrites
                /\ r.m.totalInvalidated = totalInvalidated
                /\ r.gc # "VictimReclaimed" =>
                      (r.m.gcCount = gcCount /\ r.m.totalGcCost = totalGcCost)
                /\ r.gc = "VictimReclaimed" =>
                      (r.m.gcCount = gcCount + 1 /\ size > SEGMENT_SIZE)

C2_Witness ==
    /\ last.out = "AllocationFailure"
    /\ last.gc = "VictimReclaimed"
    /\ totalWrites > 0

\* C3: after initSegmentManager every segment has utilization 0,
\* invalidatedBytes 0 and all its validity flags false, whatever the memory
\* held before.
C3_InitClearsEverything ==
    last.out = "Initialized" =>
        \A s \in Segs :
            /\ segments[s].utilization = 0
            /\ segments[s].invalidatedBytes = 0
            /\ \A i \in Pos : ~segments[s].valid[i]

C5_OutOfRangeNeverRejected ==
    [][\A offset \in Offsets, size \in Sizes :
         (/\ DoProcessWriteRequest(offset, size)
          /\ offset + size > SEGMENT_SIZE
          /\ \E s \in Segs :
                segments[s].utilization + Cardinality(InBounds(offset, size))
                    <= SEGMENT_SIZE)
            => last'.out = "Accepted"]_vars

\* C5 (amended): offsets are clipped, sizes are not.  A request is Accepted
\* exactly when some segment has utilization + size <= capacity, or size <=
\* capacity and the forced collection has a victim: whatever its offset, and
\* never when size > capacity.  An Accepted request leaves the in-bounds part
\* of its range valid in one segment and, when no collection ran, changes no
\* other position.
C5_OffsetsClippedSizesNot ==
    \A offset \in Offsets, size \in Sizes :
        \A r \in {processWriteRequest(Manager, offset, size)} :
            /\ (r.out = "Accepted")
                  = (\/ \E s \in Segs : segments[s].utilization + size <= SEGMENT_SIZE
                     \/ size <= SEGMENT_SIZE /\ Candidates # {})
            /\ r.out = "Accepted" =>
                  \E s \in Segs : \A i \in InBounds(offset, size) : r.m.segments[s].valid[i]
            /\ (r.out = "Accepted" /\ r.gc = "None") =>
                  \A s \in Segs : \A i \in Pos \ InBounds(offset, size) :
                      r.m.segments[s].valid[i] = segments[s].valid[i]

C5_Witness ==
    /\ last.out = "Accepted"
    /\ last.clipped
    /\ \E s \in Segs : segments[s].valid[SEGMENT_SIZE - 1]

\* C6: totalWrites equals the number of Accepted requests: an Accepted
\* request adds exactly 1 to it and an AllocationFailure nothing.
C6_TotalWritesCountsAccepted == totalWrites = accepted

C6_Witness ==
    /\ last.out = "AllocationFailure"
    /\ accepted >= 2

\* C7: when no segment with utilization > 0 has invalidatedBytes > 0, a
\* collection chooses no victim and changes neither a counter nor a segment.
C7_NoCandidateNoOp ==
    [][(Candidates = {} /\ last'.gc # "None") =>
         /\ last'.gc = "NoVictim"
         /\ UNCHANGED <<segments, totalWrites, totalInvalidated, gcCount, totalGcCost>>]_vars

C7_Witness ==
    /\ last.out = "NoVictim"
    /\ Used # {}
    /\ Candidates = {}

\* C8: totalWrites, totalInvalidated and gcCount never decrease; a segment's
\* invalidatedBytes decreases only in the step that reclaims it as victim,
\* and that step leaves it 0.
C8_CountersMonotone ==
    [][/\ totalWrites' >= totalWrites
       /\ totalInvalidated' >= totalInvalidated
       /\ gcCount' >= gcCount
       /\ \A s \in Segs :
             segments'[s].invalidatedBytes < segments[s].invalidatedBytes
                => (last'.gc = "VictimReclaimed" /\ last'.victim = s)
       /\ last'.gc = "VictimReclaimed"
             => segments'[last'.victim].invalidatedBytes = 0]_vars

C8_Witness ==
    /\ last.gc = "VictimReclaimed"
    /\ segments[last.victim].invalidatedBytes = 0
    /\ \E s \in Segs : segments[s].invalidatedBytes > 0

\* C9: isGarbageCollectionNeeded is true exactly when 10 * used >= 9 * N,
\* used being the number of segments with utilization > 0.
C9_NeededIffNineTenthsUsed ==
    isGarbageCollectionNeeded(Manager)
        = (10 * Cardinality(Used) >= 9 * NUM_SEGMENTS)

C9_Witness ==
    /\ 10 * Cardinality(Used) >= 9 * NUM_SEGMENTS
    /\ last.out = "NoVictim"

\* C10: gcCount grows by 1 in exactly the steps that reclaim a victim, for a
\* finite and for the infinite cost alike; totalGcCost grows by the cost
\* 2 / (1 - totalWrites / (N * capacity)) when totalWrites < N * capacity
\* and is unchanged otherwise.
C10_GcCountCountsReclaims ==
    [][/\ gcCount' - gcCount = reclaimed' - reclaimed
       /\ reclaimed' = reclaimed => totalGcCost' = totalGcCost
       /\ reclaimed' # reclaimed =>
             IF totalWrites < PoolBytes
             THEN /\ totalGcCost' > totalGcCost
                  /\ (totalGcCost' - totalGcCost) * (PoolBytes - totalWrites)
                        = 2 * PoolBytes * CostScale
             ELSE totalGcCost' = totalGcCost]_vars

C10_Witness ==
    /\ last.out = "VictimReclaimed"
    /\ totalWrites >= PoolBytes
    /\ gcCount = 2
    /\ totalGcCost > 0

\* C11: a collection that reclaims a victim costs 2 / (1 - w / (N * capacity))
\* when w < N * capacity, w being totalWrites as the collection finds it (a
\* request that forces the collection is not yet counted); the cost is 4 at
\* w = N * capacity / 2; from w = N * capacity on the cost is the infinite
\* sentinel, which adds nothing to totalGcCost.
C11_CostFromTotalWrites ==
    [][reclaimed' # reclaimed =>
         \A cost \in {totalGcCost' - totalGcCost} :
            /\ totalWrites < PoolBytes =>
                  /\ cost * (PoolBytes - totalWrites) = 2 * PoolBytes * CostScale
                  /\ cost >= 2 * CostScale
            /\ 2 * totalWrites = PoolBytes => cost = 4 * CostScale
            /\ totalWrites >= PoolBytes => cost = 0]_vars

\* a forced collection at half fill: cost 4, and the request counted after it
C11_Witness ==
    /\ last.out = "Accepted"
    /\ last.gc = "VictimReclaimed"
    /\ 2 * (totalWrites - 1) = PoolBytes
    /\ totalGcCost = 4 * CostScale

\* C12: every collection that reclaims a victim copies the victim's valid
\* bytes to a destination, the segment findSegmentForWrite(manager, 0)
\* returns, that is a segment other than the victim.
C12_DestinationIsNotVictim ==
    [][last'.gc = "VictimReclaimed" =>
         findSegmentForWrite(Manager, 0) # last'.victim]_vars

\* the manager as processWriteRequest finds it when it starts to invalidate:
\* after the forced collection, if the first lookup failed
BeforeInvalidation(size) ==
    IF findSegmentForWrite(Manager, size) = NULL THEN garbageCollect(Manager).m
    ELSE Manager

ValidIn(m, s, R) == Cardinality({i \in R : m.segments[s].valid[i]})

\* C13: an Accepted request on target s, with R the in-bounds part of its
\* range and k the number of positions of R valid in s before the
\* invalidation, leaves every position of R valid and the validity outside R
\* unchanged, utilization(s) = old - k + |R|, and invalidatedBytes(s) and
\* totalInvalidated each k higher.
C13_WriteEffect ==
    \A offset \in Offsets, size \in Sizes :
        \A r \in {processWriteRequest(Manager, offset, size)} :
            r.out = "Accepted" =>
                \A b \in {BeforeInvalidation(size)} :
                    LET s == findSegmentForWrite(b, size)
                        R == InBounds(offset, size)
                        k == ValidIn(b, s, R)
                    IN  /\ \A i \in R : r.m.segments[s].valid[i]
                        /\ \A i \in Pos \ R :
                              r.m.segments[s].valid[i] = b.segments[s].valid[i]
                        /\ \A t \in Segs \ {s} : r.m.segments[t] = b.segments[t]
                        /\ r.m.segments[s].utilization
                              = b.segments[s].utilization - k + Cardinality(R)
                        /\ r.m.segments[s].invalidatedBytes
                              = b.segments[s].invalidatedBytes + k
                        /\ r.m.totalInvalidated = b.totalInvalidated + k

\* a rewrite of a valid range: utilization as before, invalidatedBytes raised
C13_Witness ==
    /\ last.out = "Accepted"
    /\ \E s \in Segs :
          /\ segments[s].utilization = 2
          /\ segments[s].invalidatedBytes = 2
          /\ ValidCount(s) = 2
    /\ totalInvalidated = 2
    /\ totalWrites = 2

\* the segments that can take size more bytes
Fits(size) == {s \in Segs : segments[s].utilization + size <= SEGMENT_SIZE}

\* C14: findSegmentForWrite(size) returns the lowest id among the segments
\* with utilization + size <= capacity, and NULL exactly when there is none.
C14_FirstFit ==
    \A size \in Sizes :
        \A r \in {findSegmentForWrite(Manager, size)} :
            /\ (r = NULL) = (Fits(size) = {})
            /\ r # NULL => (r \in Fits(size) /\ \A s \in Fits(size) : r <= s)

\* segment 0 is full and segment 1 is not: the lookup skips segment 0 for
\* size 1 and finds nothing for size capacity
C14_Witness ==
    /\ last.out = "Accepted"
    /\ segments[0].utilization = SEGMENT_SIZE
    /\ segments[1].utilization \in 1 .. (SEGMENT_SIZE - 1)

\* the statements of a processWriteRequest that has returned: a lookup that
\* finds a segment, or a lookup that finds none followed by one collection
\* and one more lookup; then, unless that lookup found none either, the
\* invalidation, the write and the count, in this order
CompletedCalls ==
    {<<"Found", "invalidateOldData", "writeToSegment", "totalWrites++">>,
     <<"NotFound", "garbageCollect", "Found", "invalidateOldData", "writeToSegment",
       "totalWrites++">>,
     <<"NotFound", "garbageCollect", "NotFound">>}

IsPrefix(p, q) == Len(p) <= Len(q) /\ SubSeq(q, 1, Len(p)) = p

\* C15: within one processWriteRequest the collection runs at most once and
\* only after a first lookup that found nothing, and is followed by exactly
\* one more lookup; the invalidation of the range comes before its write
\* (when the write starts, no in-bounds position of the range is valid);
\* totalWrites changes only in the statement after the write, and never in
\* a call that ends in AllocationFailure.
C15_CallOrder ==
    [][/\ \E c \in CompletedCalls : IsPrefix(call'.ops, c)
       /\ (call.pc # "Idle" /\ call'.pc = "Idle") => call'.ops \in CompletedCalls
       /\ call'.pc = "Writing" =>
             \A i \in InBounds(call'.offset, call'.size) :
                 ~segments'[call'.targetSegment].valid[i]
       /\ totalWrites' # totalWrites =>
             /\ call.pc = "Counting"
             /\ call.ops[Len(call.ops)] = "writeToSegment"
             /\ last'.out = "Accepted"
       /\ (call.pc # "Idle" /\ last'.out = "AllocationFailure") =>
             ~(\E i \in 1 .. Len(call'.ops) : call'.ops[i] = "totalWrites++")]_vars

\* a call that forced a collection, retried and was carried out
C15_Witness ==
    /\ call.pc = "Idle"
    /\ Len(call.ops) = 6
    /\ last.out = "Accepted"
    /\ last.gc = "VictimReclaimed"
    /\ totalWrites = 3

\* a segment as the data model has it at initialization
FreshSegment ==
    [utilization |-> 0, invalidatedBytes |-> 0, valid |-> [i \in Pos |-> FALSE]]

\* C16: a collection that reclaims a victim leaves the victim with
\* utilization 0, invalidatedBytes 0 and every validity flag false, and a
\* write of any size <= capacity can then be allocated to it.
C16_VictimLeftFresh ==
    \A r \in {garbageCollect(Manager)} :
        r.out = "VictimReclaimed" =>
            /\ r.m.segments[r.victim] = FreshSegment
            /\ \A size \in 0 .. SEGMENT_SIZE :
                  /\ r.m.segments[r.victim].utilization + size <= SEGMENT_SIZE
                  /\ findSegmentForWrite(r.m, size) \in 0 .. r.victim

\* segment 1 has been reclaimed while segment 0 is full
C16_Witness ==
    /\ last.out = "VictimReclaimed"
    /\ last.victim = 1
    /\ segments[1] = FreshSegment
    /\ segments[0].utilization = SEGMENT_SIZE

\* C17: when a collection reclaims victim v with a destination d other than
\* v, every position valid in v before is valid in d afterwards, at the same
\* offset; the positions of d valid before stay valid; utilization(d) grows
\* by the number of positions valid in v and not in d.
C17_CopyKeepsOffsets ==
    \A r \in {garbageCollect(Manager)} :
        \A d \in {findSegmentForWrite(Manager, 0)} :
            (r.out = "VictimReclaimed" /\ d # r.victim) =>
                LET v == r.victim
                    moved == {i \in Pos : segments[v].valid[i] /\ ~segments[d].valid[i]}
                IN  /\ \A i \in Pos :
                          r.m.segments[d].valid[i]
                              = (segments[v].valid[i] \/ segments[d].valid[i])
                    /\ r.m.segments[d].utilization
                          = segments[d].utilization + Cardinality(moved)
                    /\ r.m.segments[d].invalidatedBytes = segments[d].invalidatedBytes

\* segment 1 was reclaimed into segment 0, which held a byte already and
\* took over another one
C17_Witness ==
    /\ last.out = "VictimReclaimed"
    /\ last.victim = 1
    /\ segments[0].utilization >= 2
    /\ segments[0].invalidatedBytes = 0
    /\ totalWrites = 3

\* C18: whenever the first lookup of a request finds a segment, the
\* processWriteRequest of segment_adv2.c and that of segment_adv4.c leave the
\* same segments (utilization, validity flags, invalidatedBytes), the same
\* totalWrites and the same totalInvalidated, and run no collection.
C18_Adv2AgreesWithAdv4 ==
    \A offset \in Offsets, size \in Sizes :
        findSegmentForWrite(Manager, size) # NULL =>
            \A a \in {processWriteRequestAdv2(Manager, offset, size)} :
                \A b \in {processWriteRequest(Manager, offset, size)} :
                    /\ a.out = "Accepted" /\ b.out = "Accepted"
                    /\ b.gc = "None"
                    /\ a.m.segments = b.m.segments
                    /\ a.m.totalWrites = b.m.totalWrites
                    /\ a.m.totalInvalidated = b.m.totalInvalidated

\* the GC-less variant has carried out an overwrite
C18_Witness ==
    /\ last.out = "Accepted"
    /\ totalInvalidated > 0
    /\ totalWrites >= 2
    /\ \E s \in Segs : segments[s].invalidatedBytes > 0 /\ segments[s].utilization > 0

C20_ReclaimMakesRoom ==
    \A offset \in Offsets, size \in 0 .. SEGMENT_SIZE :
        \A r \in {processWriteRequest(Manager, offset, size)} :
            /\ r.gc = "VictimReclaimed" =>
                  /\ r.out = "Accepted"
                  /\ \A i \in InBounds(offset, size) : r.m.segments[r.victim].valid[i]
                  /\ r.m.segments[r.victim].utilization
                        = Cardinality(InBounds(offset, size))
            /\ r.out = "AllocationFailure" => r.gc = "NoVictim"

\* the request that forced the collection was written to the reclaimed victim
C20_Witness ==
    /\ last.out = "Accepted"
    /\ last.gc = "VictimReclaimed"
    /\ segments[last.victim].utilization > 0
    /\ gcCount = 1

\* every segment is full and none has an invalidated byte
AllFull ==
    \A s \in Segs :
        segments[s].utilization = SEGMENT_SIZE /\ segments[s].invalidatedBytes = 0

C22_InvalidatedImpliesUsed ==
    \A s \in Segs : segments[s].invalidatedBytes > 0 => segments[s].utilization > 0

RECURSIVE SumInvalidatedFrom(_, _)
SumInvalidatedFrom(segs, i) ==
    IF i >= NUM_SEGMENTS THEN 0
    ELSE segs[i].invalidatedBytes + SumInvalidatedFrom(segs, i + 1)

\* totalInvalidated less the invalidatedBytes the segments hold now
ReclaimedInvalidated(segs, total) == total - SumInvalidatedFrom(segs, 0)

\* C23: totalInvalidated is at least the sum of the segments'
\* invalidatedBytes, and equal to it while gcCount = 0; the difference grows
\* in exactly the steps that reclaim a victim, by the invalidatedBytes the
\* victim held.
C23_TotalInvalidatedAccounts ==
    /\ [](/\ ReclaimedInvalidated(segments, totalInvalidated) >= 0
          /\ gcCount = 0 => ReclaimedInvalidated(segments, totalInvalidated) = 0)
    /\ [][ReclaimedInvalidated(segments', totalInvalidated')
            - ReclaimedInvalidated(segments, totalInvalidated)
            = IF last'.gc = "VictimReclaimed"
              THEN segments[last'.victim].invalidatedBytes
              ELSE 0]_vars

\* a victim has been reclaimed and a segment holds invalidated bytes again
C23_Witness ==
    /\ gcCount = 1
    /\ ReclaimedInvalidated(segments, totalInvalidated) = 1
    /\ SumInvalidatedFrom(segments, 0) = 1
    /\ totalInvalidated = 2

=============================================================================
